---------------------------- MODULE Spec2Model ----------------------------
(***************************************************************************)
(* Model of the activity-decision engine of predictor_call.py: the         *)
(* nucleotide encoder (onehot, _model_input_from_nt), the classify-then-   *)
(* regress decision policy (_classify_and_decide, _regress,                *)
(* _combine_model_results) and the memoization of results by start         *)
(* position (_run_models_and_memoize, determine_highly_active,             *)
(* compute_activity, cleanup_memoized).                                    *)
(*                                                                         *)
(* Numbers.  Scores, thresholds and activities are held in tenths          *)
(* (0.5 is 5, -3.0 is -30, the shift 4.0 is 40); one-hot weights are held  *)
(* in twelfths (1.0 is 12, 1/2 is 6, 1/3 is 4, 1/4 is 3).                  *)
(*                                                                         *)
(* Strings are sequences of one-character strings; a pair is               *)
(* <<target_with_context, guide>>.  Python lists are sequences, so index   *)
(* i of the source is index i+1 here.                                      *)
(*                                                                         *)
(* Specifications.  Spec: one caller, each call run from its first line    *)
(* to its return or exception.  SpecConc: two callers whose calls advance  *)
(* step by step, interleaved.  SpecCtor: the constructor over a wide set   *)
(* of arguments, followed by calls.  SpecEnc: onehot and                   *)
(* _model_input_from_nt called on their own over a wide set of inputs.     *)
(***************************************************************************)
EXTENDS Integers, Sequences, FiniteSets, TLC

VARIABLES
    constructed,              \* TRUE when Predictor.__init__ returned a predictor
    context_nt,               \* self.context_nt
    classification_threshold, \* self.classification_threshold
    regression_threshold,     \* self.regression_threshold
    memoized_evaluations,     \* self._memoized_evaluations: start_pos -> dict object
    heap,                     \* the dict objects: id -> (pair -> result)
    frame,                    \* per caller: the locals of its call and its position
    calls,                    \* number of active/activity calls started
    cls_submitted,            \* (start_pos, pair) -> times its input went to the classification model
    classified                \* start_pos -> pair -> the classification decision behind the stored result

vars == <<constructed, context_nt, classification_threshold, regression_threshold,
          memoized_evaluations, heap, frame, calls, cls_submitted,
          classified>>

config == <<constructed, context_nt, classification_threshold, regression_threshold>>

-----------------------------------------------------------------------------
(* Bounds of the model *)

\* most active/activity calls in one behaviour
MaxCalls == 2
\* longest list of pairs passed to one call
MaxLen == 2

\* the start positions callers pass
Loci == {1, 2}

\* callers: the sequential specification runs caller 1 only
Threads == {1, 2}

(* The pairs callers pass: a plain pair, a pair with ambiguity codes, a pair
   with a character outside FASTA_CODES, and a pair whose target length is
   not 2*context_nt + len(guide) for context_nt = 1. *)
pairA == << <<"T", "A", "G">>, <<"A">> >>
pairN == << <<"C", "N", "T">>, <<"K">> >>
pairX == << <<"T", "X", "G">>, <<"A">> >>
pairL == << <<"T", "A">>, <<"A">> >>

PairUniverse == {pairA, pairN, pairX, pairL}

(* The models are opaque: what a model may give for an input is drawn from a
   small set that depends on the input.  Between them the sets hold a score
   under, at and over the classification threshold 0.5, and a raw regression
   output that the lower bound floors (-5.0), one under (-3.5), one at (-3.2)
   and one over (-3.0) the regression threshold 0.8 once shifted. *)
\* outputs in [0,1] the classification model may give for the input of pair
ClsScores(pair) == IF pair = pairA THEN {2, 9} ELSE {4, 5}
\* raw outputs the regression model may give for the input of pair
RegRaws(pair) == IF pair = pairA THEN {-50, -30} ELSE {-35, -32}

-----------------------------------------------------------------------------
(* Sequence helpers *)

Range(s) == {s[i] : i \in DOMAIN s}

RECURSIVE SetToSeqs(_)
\* every ordering of a finite set: the orders in which python may iterate a set
SetToSeqs(S) ==
    IF S = {} THEN {<<>>}
    ELSE UNION {{<<x>> \o r : r \in SetToSeqs(S \ {x})} : x \in S}

RECURSIVE Indices(_, _)
\* the indices i of s, ascending, with s[i] = v
Indices(s, v) ==
    IF s = <<>> THEN <<>>
    ELSE LET n == Len(s)
             front == Indices(SubSeq(s, 1, n - 1), v)
         IN IF s[n] = v THEN Append(front, n) ELSE front

SeqsUpTo(S, n) == UNION {[1..k -> S] : k \in 0..n}

Count(s, v) == Cardinality({i \in DOMAIN s : s[i] = v})

-----------------------------------------------------------------------------
(* Sequence encoder *)

FASTA_CODES ==
    [b \in {"A", "T", "C", "G", "K", "M", "R", "Y", "S", "W", "B", "V", "H", "D", "N"} |->
        CASE b = "A" -> {"A"}
          [] b = "T" -> {"T"}
          [] b = "C" -> {"C"}
          [] b = "G" -> {"G"}
          [] b = "K" -> {"G", "T"}
          [] b = "M" -> {"A", "C"}
          [] b = "R" -> {"A", "G"}
          [] b = "Y" -> {"C", "T"}
          [] b = "S" -> {"C", "G"}
          [] b = "W" -> {"A", "T"}
          [] b = "B" -> {"C", "G", "T"}
          [] b = "V" -> {"A", "C", "G"}
          [] b = "H" -> {"A", "C", "T"}
          [] b = "D" -> {"A", "G", "T"}
          [] b = "N" -> {"A", "T", "C", "G"}]

onehot_idx == [b \in {"A", "C", "G", "T"} |-> CASE b = "A" -> 0 [] b = "C" -> 1
                                                [] b = "G" -> 2 [] b = "T" -> 3]

\* the weight 1.0 of a one-hot channel, in twelfths
One == 12

\* onehot giving weight 1 to every real base, undivided
onehotUnweighted(b) ==
    LET real_bases == FASTA_CODES[b]
    IN [k \in 1..4 |-> IF \E r \in real_bases : onehot_idx[r] = k - 1
                       THEN One ELSE 0]

\* One-hot encoding of base b (b in FASTA_CODES): column k of the source is v[k+1]
onehot(b) ==
    LET real_bases == FASTA_CODES[b]
    IN [k \in 1..4 |->
          IF \E b_real \in real_bases : onehot_idx[b_real] = k - 1
          THEN One \div Cardinality(real_bases)
          ELSE 0]

zero4 == <<0, 0, 0, 0>>

\* what stops the loop body of _model_input_from_nt for one pair, "" if nothing:
\* the assert on the length, then the FASTA_CODES lookup of the first
\* unknown character
PairError(ctx, pair) ==
    LET target_with_context == pair[1]
        guide == pair[2]
    IN IF Len(target_with_context) # 2 * ctx + Len(guide) THEN "AssertionError"
       ELSE IF \E c \in Range(target_with_context) \cup Range(guide) :
                    c \notin DOMAIN FASTA_CODES
            THEN "KeyError"
            ELSE ""

\* input_vec of one pair (its length and characters being right)
input_vec(ctx, pair) ==
    LET target_with_context == pair[1]
        guide == pair[2]
    IN [pos \in 1..ctx |-> onehot(target_with_context[pos]) \o zero4]
       \o [pos \in 1..Len(guide) |->
             onehot(target_with_context[ctx + pos]) \o onehot(guide[pos])]
       \o [pos \in 1..ctx |->
             onehot(target_with_context[ctx + Len(guide) + pos]) \o zero4]

\* x[i] = input_vec for an x[i] of l rows: numpy copies an input_vec of l rows,
\* repeats the row of an input_vec of a single row, and refuses any other
RowError(l, v) == IF Len(v) >= 1 /\ (Len(v) = l \/ Len(v) = 1) THEN "" ELSE "ValueError"

RowAssign(l, v) == IF Len(v) = l THEN v ELSE [r \in 1..l |-> v[1]]

\* _model_input_from_nt: [ok |-> TRUE, val |-> x] or [ok |-> FALSE, err |-> exception]
ModelInputFromNt(ctx, pairs) ==
    IF Len(pairs) = 0 THEN [ok |-> TRUE, val |-> <<>>, err |-> ""]
    ELSE
      LET l == 2 * ctx + Len(pairs[1][2])
          ErrAt(i) == IF PairError(ctx, pairs[i]) # "" THEN PairError(ctx, pairs[i])
                      ELSE RowError(l, input_vec(ctx, pairs[i]))
          bad == {i \in DOMAIN pairs : ErrAt(i) # ""}
      IN IF bad # {}
         THEN [ok |-> FALSE, val |-> <<>>,
               err |-> ErrAt(CHOOSE i \in bad : \A j \in bad : i <= j)]
         ELSE [ok |-> TRUE,
               val |-> [i \in DOMAIN pairs |-> RowAssign(l, input_vec(ctx, pairs[i]))],
               err |-> ""]

-----------------------------------------------------------------------------
(* Construction *)

regression_lower_bound == 0
regression_shift == 40

\* an optional argument: <<>> is None, <<v>> is the value v
Given(opt) == opt # <<>>

\* PredictorInit without the comparison of the two context_nt values
PredictorInitAnyContext(a) ==
    LET cls == IF Given(a.classification_threshold)
               THEN [ok |-> ~(a.classification_threshold[1] < 0
                              \/ a.classification_threshold[1] > 10),
                     val |-> a.classification_threshold[1]]
               ELSE IF ~Given(a.classification_default)
               THEN [ok |-> FALSE, val |-> 0]
               ELSE [ok |-> 0 <= a.classification_default[1]
                            /\ a.classification_default[1] <= 10,
                     val |-> a.classification_default[1]]
        reg == IF Given(a.regression_threshold)
               THEN [ok |-> ~(a.regression_threshold[1] < 0),
                     val |-> a.regression_threshold[1]]
               ELSE IF ~Given(a.regression_default)
               THEN [ok |-> FALSE, val |-> 0]
               ELSE [ok |-> a.regression_default[1] + regression_shift
                              > regression_lower_bound,
                     val |-> a.regression_default[1] + regression_shift]
    IN IF cls.ok /\ reg.ok
       THEN [ok |-> TRUE, context_nt |-> a.classification_context_nt,
             classification_threshold |-> cls.val,
             regression_threshold |-> reg.val]
       ELSE [ok |-> FALSE, context_nt |-> 0, classification_threshold |-> 0,
             regression_threshold |-> 0]

\* PredictorInit storing the default regression threshold as read, in the
\* range of the raw model outputs
PredictorInitDefaultUnshifted(a) ==
    LET ctx_ok == a.classification_context_nt = a.regression_context_nt
        cls == IF Given(a.classification_threshold)
               THEN [ok |-> ~(a.classification_threshold[1] < 0
                              \/ a.classification_threshold[1] > 10),
                     val |-> a.classification_threshold[1]]
               ELSE IF ~Given(a.classification_default)
               THEN [ok |-> FALSE, val |-> 0]
               ELSE [ok |-> 0 <= a.classification_default[1]
                            /\ a.classification_default[1] <= 10,
                     val |-> a.classification_default[1]]
        reg == IF Given(a.regression_threshold)
               THEN [ok |-> ~(a.regression_threshold[1] < 0),
                     val |-> a.regression_threshold[1]]
               ELSE IF ~Given(a.regression_default)
               THEN [ok |-> FALSE, val |-> 0]
               ELSE [ok |-> a.regression_default[1] + regression_shift
                              > regression_lower_bound,
                     val |-> a.regression_default[1]]
    IN IF ctx_ok /\ cls.ok /\ reg.ok
       THEN [ok |-> TRUE, context_nt |-> a.classification_context_nt,
             classification_threshold |-> cls.val,
             regression_threshold |-> reg.val]
       ELSE [ok |-> FALSE, context_nt |-> 0, classification_threshold |-> 0,
             regression_threshold |-> 0]

(* Predictor.__init__ on
     a.classification_context_nt, a.regression_context_nt: the context_nt.arg files,
     a.classification_threshold, a.regression_threshold: the optional arguments,
     a.classification_default, a.regression_default: the default_threshold.arg
       files (<<>> when the file is missing).
   ok is FALSE when __init__ raises. *)
PredictorInit(a) ==
    LET ctx_ok == a.classification_context_nt = a.regression_context_nt
        cls == IF Given(a.classification_threshold)
               THEN [ok |-> ~(a.classification_threshold[1] < 0
                              \/ a.classification_threshold[1] > 10),
                     val |-> a.classification_threshold[1]]
               ELSE IF ~Given(a.classification_default)
               THEN [ok |-> FALSE, val |-> 0]
               ELSE [ok |-> 0 <= a.classification_default[1]
                            /\ a.classification_default[1] <= 10,
                     val |-> a.classification_default[1]]
        reg == IF Given(a.regression_threshold)
               THEN [ok |-> ~(a.regression_threshold[1] < 0),
                     val |-> a.regression_threshold[1]]
               ELSE IF ~Given(a.regression_default)
               THEN [ok |-> FALSE, val |-> 0]
               ELSE [ok |-> a.regression_default[1] + regression_shift
                              > regression_lower_bound,
                     val |-> a.regression_default[1] + regression_shift]
    IN IF ctx_ok /\ cls.ok /\ reg.ok
       THEN [ok |-> TRUE, context_nt |-> a.classification_context_nt,
             classification_threshold |-> cls.val,
             regression_threshold |-> reg.val]
       ELSE [ok |-> FALSE, context_nt |-> 0, classification_threshold |-> 0,
             regression_threshold |-> 0]

CtorArg(cc, rc, ct, rt, cd, rd) ==
    [classification_context_nt |-> cc, regression_context_nt |-> rc,
     classification_threshold |-> ct, regression_threshold |-> rt,
     classification_default |-> cd, regression_default |-> rd]

\* the constructions the behaviours start from: thresholds 0.5 and 0.8 given
\* by the caller or read as defaults 0.5 and -3.2, a classification
\* threshold above 1, and models of different context_nt
CtorArgs ==
    { CtorArg(1, 1, <<5>>, <<8>>, <<5>>, <<-32>>),
      CtorArg(1, 1, <<>>, <<>>, <<5>>, <<-32>>),
      CtorArg(1, 1, <<11>>, <<8>>, <<5>>, <<-32>>),
      CtorArg(1, 2, <<5>>, <<8>>, <<5>>, <<-32>>) }

\* the constructions of the specification of the constructor: thresholds
\* given by the caller, inside their domains, on the boundaries and outside,
\* with equal and with different context_nt; and thresholds left to the
\* default_threshold.arg files, present with values inside and outside, or
\* missing
WideCtorArgs ==
    { CtorArg(cc, rc, <<ct>>, <<rt>>, <<5>>, <<-32>>) :
        cc \in {1, 2}, rc \in {1, 2}, ct \in {-1, 0, 5, 10, 11},
        rt \in {-1, 0, 8} }
    \cup { CtorArg(1, 1, <<>>, <<>>, cd, rd) :
             cd \in {<<>>, <<-1>>, <<0>>, <<5>>, <<10>>, <<11>>},
             rd \in {<<>>, <<-45>>, <<-40>>, <<-39>>, <<-32>>, <<0>>} }
    \cup { CtorArg(1, 1, <<5>>, <<>>, <<>>, rd) :
             rd \in {<<-45>>, <<-40>>, <<-32>>} }
    \cup { CtorArg(1, 1, <<>>, <<8>>, cd, <<>>) :
             cd \in {<<-1>>, <<5>>} }

-----------------------------------------------------------------------------
(* Decision policy *)

Max(a, b) == IF a >= b THEN a ELSE b

\* _classify_and_decide, after the model gave pred_classification_score
ClassifyAndDecide(thr, pred_classification_score) ==
    [i \in DOMAIN pred_classification_score |-> pred_classification_score[i] >= thr]

\* PairsOnehotActive without the filter: every pair goes on to the regression
PairsOnehotUnfiltered(pairs_onehot, classification_results) == pairs_onehot

\* pairs_onehot_active: the rows of pairs_onehot whose decision is True, in order
PairsOnehotActive(pairs_onehot, classification_results) ==
    LET n == IF Len(pairs_onehot) <= Len(classification_results)
             THEN Len(pairs_onehot) ELSE Len(classification_results)
        idx == Indices(SubSeq(classification_results, 1, n), TRUE)
    IN [k \in DOMAIN idx |-> pairs_onehot[idx[k]]]

\* RegressShift without the lower bound
RegressShiftNoFloor(pred_regression_score) ==
    [i \in DOMAIN pred_regression_score |->
        pred_regression_score[i] + regression_shift]

\* _regress, after the model gave pred_regression_score: shift and lower bound
RegressShift(pred_regression_score) ==
    [i \in DOMAIN pred_regression_score |->
        Max(regression_lower_bound, pred_regression_score[i] + regression_shift)]

\* CombineModelResults reading regression_results at the position i of the
\* pair in the batch, not at the count j of the active pairs before it
CombineIndexedByPosition(reg_thr, classification_results, regression_results) ==
    LET idx == Indices(classification_results, TRUE)
    IN IF \E k \in DOMAIN idx : idx[k] > Len(regression_results)
       THEN [ok |-> FALSE, val |-> <<>>, err |-> "IndexError"]
       ELSE IF Len(idx) # Len(regression_results)
       THEN [ok |-> FALSE, val |-> <<>>, err |-> "AssertionError"]
       ELSE [ok |-> TRUE,
             val |-> [i \in DOMAIN classification_results |->
                        IF classification_results[i] = FALSE
                        THEN <<0, FALSE>>
                        ELSE <<regression_results[i],
                               regression_results[i] >= reg_thr>>],
             err |-> ""]

\* CombineModelResults reporting activity 0 for every pair that is not
\* highly active
CombineZeroBelowThreshold(reg_thr, classification_results, regression_results) ==
    LET idx == Indices(classification_results, TRUE)
        J(i) == Cardinality({k \in DOMAIN idx : idx[k] < i})
    IN IF Len(idx) > Len(regression_results)
       THEN [ok |-> FALSE, val |-> <<>>, err |-> "IndexError"]
       ELSE IF Len(idx) # Len(regression_results)
       THEN [ok |-> FALSE, val |-> <<>>, err |-> "AssertionError"]
       ELSE [ok |-> TRUE,
             val |-> [i \in DOMAIN classification_results |->
                        IF classification_results[i] = FALSE
                             \/ regression_results[J(i) + 1] < reg_thr
                        THEN <<0, FALSE>>
                        ELSE <<regression_results[J(i) + 1], TRUE>>],
             err |-> ""]

\* CombineModelResults comparing the shifted regression result with a
\* threshold taken to be in the range of the raw model outputs
CombineThresholdUnshifted(reg_thr, classification_results, regression_results) ==
    LET idx == Indices(classification_results, TRUE)
        J(i) == Cardinality({k \in DOMAIN idx : idx[k] < i})
    IN IF Len(idx) > Len(regression_results)
       THEN [ok |-> FALSE, val |-> <<>>, err |-> "IndexError"]
       ELSE IF Len(idx) # Len(regression_results)
       THEN [ok |-> FALSE, val |-> <<>>, err |-> "AssertionError"]
       ELSE [ok |-> TRUE,
             val |-> [i \in DOMAIN classification_results |->
                        IF classification_results[i] = FALSE
                        THEN <<0, FALSE>>
                        ELSE <<regression_results[J(i) + 1],
                               regression_results[J(i) + 1]
                                 >= reg_thr - regression_shift>>],
             err |-> ""]

\* _combine_model_results: results are tuples <<activity, highly_active>>;
\* regression_results[j] of a missing j is an IndexError, unused regression
\* results fail the closing assert
CombineModelResults(reg_thr, classification_results, regression_results) ==
    LET idx == Indices(classification_results, TRUE)
        J(i) == Cardinality({k \in DOMAIN idx : idx[k] < i})
    IN IF Len(idx) > Len(regression_results)
       THEN [ok |-> FALSE, val |-> <<>>, err |-> "IndexError"]
       ELSE IF Len(idx) # Len(regression_results)
       THEN [ok |-> FALSE, val |-> <<>>, err |-> "AssertionError"]
       ELSE [ok |-> TRUE,
             val |-> [i \in DOMAIN classification_results |->
                        IF classification_results[i] = FALSE
                        THEN <<0, FALSE>>
                        ELSE <<regression_results[J(i) + 1],
                               regression_results[J(i) + 1] >= reg_thr>>],
             err |-> ""]

-----------------------------------------------------------------------------
(* Dict objects *)

EmptyDict == [k \in {} |-> <<>>]

DictSet(d, k, v) == [x \in DOMAIN d \cup {k} |-> IF x = k THEN v ELSE d[x]]

DictDel(d, k) == [x \in DOMAIN d \ {k} |-> d[x]]

\* identities of dict objects: each start position and each caller holds at most one
DictIds == 1..(Cardinality(Loci) + Cardinality(Threads))

\* the dict objects some reference reaches: a value of _memoized_evaluations
\* or the local mem of a caller
Referenced(memo, frames) ==
    Range(memo) \cup UNION {Range(frames[t].mem) : t \in DOMAIN frames}

\* a new {}: the least identity no reference reaches
NewDict(memo, frames) ==
    CHOOSE id \in DictIds \ Referenced(memo, frames) :
        \A other \in DictIds \ Referenced(memo, frames) : id <= other

\* objects no reference reaches are gone
Collect(h, memo, frames) ==
    [id \in DictIds |-> IF id \in Referenced(memo, frames) THEN h[id] ELSE EmptyDict]

\* the stored results, as the set of <<start_pos, pair, result>>
Stored(memo, h) ==
    {<<x[1], x[2], h[memo[x[1]]][x[2]]>> :
        x \in {y \in Loci \X PairUniverse :
                 y[1] \in DOMAIN memo /\ y[2] \in DOMAIN h[memo[y[1]]]}}

-----------------------------------------------------------------------------
(* The callers' frames and the steps of a call *)

(* The locals of one call of determine_highly_active ("active") or
   compute_activity ("activity") and of the _run_models_and_memoize it makes.
   pc is the step the caller is to take next; cls_input and reg_input are the
   batches model.call received (<<>> when the model was not invoked); mem is
   <<id>> while the caller holds the dict object id, <<>> otherwise;
   ctor_args is <<a>> in the frame of the call Predictor(a); b is the
   argument of a call of onehot. *)
IdleFrame ==
    [pc |-> "idle", op |-> "", start_pos |-> 0, pairs |-> <<>>, mem |-> <<>>,
     unique_pairs_to_evaluate |-> <<>>, pairs_onehot |-> <<>>,
     pred_classification_score |-> <<>>, classification_results |-> <<>>,
     pairs_onehot_active |-> <<>>, pred_regression_score |-> <<>>,
     regression_results |-> <<>>, combined_results |-> <<>>,
     cls_input |-> <<>>, reg_input |-> <<>>,
     cls_called |-> FALSE, reg_called |-> FALSE,
     ret |-> <<>>, exc |-> "", ctor_args |-> <<>>, b |-> ""]

\* the state a step reads and writes
World ==
    [memo |-> memoized_evaluations, heap |-> heap, frame |-> frame,
     cs |-> cls_submitted,
     cl |-> classified]

SetWorld(w) ==
    /\ memoized_evaluations' = w.memo
    /\ heap' = Collect(w.heap, w.memo, w.frame)
    /\ frame' = w.frame
    /\ cls_submitted' = w.cs
    /\ classified' = w.cl

\* the exception leaves the call: the arguments and the locals of the caller,
\* mem among them, are dropped; what the models received and gave stays on
\* record
Raise(w, t, e) ==
    [w EXCEPT !.frame[t].pc = "raised", !.frame[t].exc = e, !.frame[t].mem = <<>>,
              !.frame[t].pairs = <<>>, !.frame[t].unique_pairs_to_evaluate = <<>>]

\* if start_pos not in self._memoized_evaluations:
\*     self._memoized_evaluations[start_pos] = {}
EnsureSubmap(w, start_pos) ==
    IF start_pos \in DOMAIN w.memo THEN w
    ELSE LET id == NewDict(w.memo, w.frame)
         IN [w EXCEPT !.memo = DictSet(w.memo, start_pos, id),
                      !.heap[id] = EmptyDict]

\* UniquePairsToEvaluate without the test against mem
UniquePairsIgnoringMem(pairs, mem) == SetToSeqs(Range(pairs))

\* UniquePairsToEvaluate over the list pairs instead of set(pairs)
UniquePairsWithRepeats(pairs, mem) ==
    {SelectSeq(pairs, LAMBDA pair : pair \notin DOMAIN mem)}

\* [pair for pair in set(pairs) if pair not in mem], in each order the set
\* may be iterated in
UniquePairsToEvaluate(pairs, mem) ==
    SetToSeqs({pair \in Range(pairs) : pair \notin DOMAIN mem})

\* Begin in which determine_highly_active takes every requested pair for
\* unseen, as if it had a cache of its own that is empty
BeginActiveIgnoringMem(w, t, op, start_pos, pairs) ==
    LET w1 == EnsureSubmap(w, start_pos)
        id == w1.memo[start_pos]
    IN { [w1 EXCEPT !.frame[t] =
             [IdleFrame EXCEPT !.pc = "classify", !.op = op,
                               !.start_pos = start_pos, !.pairs = pairs,
                               !.mem = <<id>>,
                               !.unique_pairs_to_evaluate = u]] :
         u \in UniquePairsToEvaluate(pairs, IF op = "active" THEN EmptyDict
                                            ELSE w1.heap[id]) }

\* the first lines of determine_highly_active and compute_activity
Begin(w, t, op, start_pos, pairs) ==
    LET w1 == EnsureSubmap(w, start_pos)
        id == w1.memo[start_pos]
    IN { [w1 EXCEPT !.frame[t] =
             [IdleFrame EXCEPT !.pc = "classify", !.op = op,
                               !.start_pos = start_pos, !.pairs = pairs,
                               !.mem = <<id>>,
                               !.unique_pairs_to_evaluate = u]] :
         u \in UniquePairsToEvaluate(pairs, w1.heap[id]) }

\* cls_submitted after the classification model received the inputs of
\* batch_pairs in a call at start_pos
Submit(submitted, start_pos, batch_pairs) ==
    [x \in Loci \X PairUniverse |->
        IF x[1] = start_pos THEN submitted[x] + Count(batch_pairs, x[2])
        ELSE submitted[x]]

RECURSIVE ClsOutputs(_)
\* what the classification model may give for the inputs of batch_pairs
ClsOutputs(batch_pairs) ==
    IF batch_pairs = <<>> THEN {<<>>}
    ELSE {<<sc>> \o r : sc \in ClsScores(Head(batch_pairs)),
                        r \in ClsOutputs(Tail(batch_pairs))}

RECURSIVE RegOutputs(_)
\* what the regression model may give for the inputs of batch_pairs
RegOutputs(batch_pairs) ==
    IF batch_pairs = <<>> THEN {<<>>}
    ELSE {<<rw>> \o r : rw \in RegRaws(Head(batch_pairs)),
                        r \in RegOutputs(Tail(batch_pairs))}

RECURSIVE StoreAll(_, _, _)
\* for pair, r in zip(pairs, combined_results): mem[pair] = r
StoreAll(mem, pairs, results) ==
    IF pairs = <<>> \/ results = <<>> THEN mem
    ELSE StoreAll(DictSet(mem, Head(pairs), Head(results)), Tail(pairs), Tail(results))

\* Classify without the test of _classify_and_decide for an empty batch: the
\* classification model is invoked on every batch
ClassifyWithoutShortCircuit(w, t) ==
    LET f == w.frame[t]
        x == ModelInputFromNt(context_nt, f.unique_pairs_to_evaluate)
    IN IF ~x.ok THEN {Raise(w, t, x.err)}
       ELSE LET w1 == [w EXCEPT !.frame[t].pairs_onehot = x.val,
                                !.frame[t].cls_input = x.val,
                                !.frame[t].cls_called = TRUE,
                                !.cs = Submit(@, f.start_pos,
                                              f.unique_pairs_to_evaluate)]
            IN {Raise(w1, t, "ModelError")} \cup
               { [w1 EXCEPT !.frame[t].pc = "regress",
                            !.frame[t].pred_classification_score = score,
                            !.frame[t].classification_results =
                                ClassifyAndDecide(classification_threshold, score)] :
                 score \in ClsOutputs(f.unique_pairs_to_evaluate) }

\* Classify memoizing (0, False) for the pairs decided inactive at once,
\* before the regression has run
ClassifyStoringInactive(w, t) ==
    LET f == w.frame[t]
        x == ModelInputFromNt(context_nt, f.unique_pairs_to_evaluate)
        id == w.memo[f.start_pos]
        Inactive(decisions) ==
            SelectSeq(f.unique_pairs_to_evaluate,
                      LAMBDA pair : \E i \in DOMAIN decisions :
                          f.unique_pairs_to_evaluate[i] = pair /\ ~decisions[i])
    IN IF ~x.ok THEN {Raise(w, t, x.err)}
       ELSE IF Len(x.val) = 0
       THEN {[w EXCEPT !.frame[t].pc = "regress"]}
       ELSE LET w1 == [w EXCEPT !.frame[t].pairs_onehot = x.val,
                                !.frame[t].cls_input = x.val,
                                !.frame[t].cls_called = TRUE,
                                !.cs = Submit(@, f.start_pos,
                                              f.unique_pairs_to_evaluate)]
            IN {Raise(w1, t, "ModelError")} \cup
               { [w1 EXCEPT !.frame[t].pc = "regress",
                            !.frame[t].pred_classification_score = score,
                            !.frame[t].classification_results =
                                ClassifyAndDecide(classification_threshold, score),
                            !.heap[id] =
                                StoreAll(@, Inactive(ClassifyAndDecide(
                                                classification_threshold, score)),
                                         [i \in DOMAIN score |-> <<0, FALSE>>])] :
                 score \in ClsOutputs(f.unique_pairs_to_evaluate) }

\* _run_models_and_memoize up to the classification decisions:
\* _model_input_from_nt, then _classify_and_decide, which invokes the model
\* on a batch that is not empty; the model raises or gives one score per input
Classify(w, t) ==
    LET f == w.frame[t]
        x == ModelInputFromNt(context_nt, f.unique_pairs_to_evaluate)
    IN IF ~x.ok THEN {Raise(w, t, x.err)}
       ELSE IF Len(x.val) = 0
       THEN {[w EXCEPT !.frame[t].pc = "regress"]}
       ELSE LET w1 == [w EXCEPT !.frame[t].pairs_onehot = x.val,
                                !.frame[t].cls_input = x.val,
                                !.frame[t].cls_called = TRUE,
                                !.cs = Submit(@, f.start_pos,
                                              f.unique_pairs_to_evaluate)]
            IN {Raise(w1, t, "ModelError")} \cup
               { [w1 EXCEPT !.frame[t].pc = "regress",
                            !.frame[t].pred_classification_score = score,
                            !.frame[t].classification_results =
                                ClassifyAndDecide(classification_threshold, score)] :
                 score \in ClsOutputs(f.unique_pairs_to_evaluate) }

\* the pairs whose inputs make pairs_onehot_active, in its order
ActivePairs(pairs, classification_results) ==
    PairsOnehotActive(pairs, classification_results)

\* the active subset and _regress, which invokes the model on a batch that is
\* not empty; the model raises or gives one output per input
Regress(w, t) ==
    LET f == w.frame[t]
        active == PairsOnehotActive(f.pairs_onehot, f.classification_results)
        active_pairs == ActivePairs(f.unique_pairs_to_evaluate,
                                    f.classification_results)
    IN IF Len(active) = 0
       THEN {[w EXCEPT !.frame[t].pc = "memoize"]}
       ELSE LET w1 == [w EXCEPT !.frame[t].pairs_onehot_active = active,
                                !.frame[t].reg_input = active,
                                !.frame[t].reg_called = TRUE]
            IN {Raise(w1, t, "ModelError")} \cup
               { [w1 EXCEPT !.frame[t].pc = "memoize",
                            !.frame[t].pred_regression_score = raw,
                            !.frame[t].regression_results = RegressShift(raw)] :
                 raw \in RegOutputs(active_pairs) }

\* _combine_model_results and the memoization that ends _run_models_and_memoize
Memoize(w, t) ==
    LET f == w.frame[t]
        c == CombineModelResults(regression_threshold, f.classification_results,
                                 f.regression_results)
    IN IF ~c.ok THEN {Raise(w, t, c.err)}
       ELSE LET w1 == EnsureSubmap(w, f.start_pos)
                id == w1.memo[f.start_pos]
            IN {[w1 EXCEPT
                   !.heap[id] = StoreAll(@, f.unique_pairs_to_evaluate, c.val),
                   !.cl[f.start_pos] = StoreAll(@, f.unique_pairs_to_evaluate,
                                                f.classification_results),
                   !.frame[t].combined_results = c.val,
                   !.frame[t].pc = "read"]}

\* the dict the return statement reads: determine_highly_active looks
\* start_pos up again, compute_activity keeps the mem of its first lines
\* (<<>> here when the lookup is a KeyError)
ReadMem(w, t) ==
    LET f == w.frame[t]
    IN IF f.op = "active"
       THEN IF f.start_pos \in DOMAIN w.memo THEN <<w.heap[w.memo[f.start_pos]]>>
            ELSE <<>>
       ELSE <<w.heap[f.mem[1]]>>

\* the component of the stored tuple an operation returns (1-based)
Component(op) == IF op = "active" THEN 2 ELSE 1

\* Read that gives one value per distinct pair: a repeated pair is read once
ReadOncePerPair(w, t) ==
    LET f == w.frame[t]
        m == ReadMem(w, t)
        firsts == SelectSeq([i \in DOMAIN f.pairs |-> i],
                            LAMBDA i : \A j \in 1..(i - 1) : f.pairs[j] # f.pairs[i])
    IN IF m = <<>> \/ \E i \in DOMAIN f.pairs : f.pairs[i] \notin DOMAIN m[1]
       THEN {Raise(w, t, "KeyError")}
       ELSE {[w EXCEPT !.frame[t].pc = "returned",
                       !.frame[t].mem = <<>>,
                       !.frame[t].ret =
                           [k \in DOMAIN firsts |->
                               m[1][f.pairs[firsts[k]]][Component(f.op)]]]}

\* return [mem[pair][1] for pair in pairs], resp. [mem[pair][0] ...]
Read(w, t) ==
    LET f == w.frame[t]
        m == ReadMem(w, t)
    IN IF m = <<>> \/ \E i \in DOMAIN f.pairs : f.pairs[i] \notin DOMAIN m[1]
       THEN {Raise(w, t, "KeyError")}
       ELSE {[w EXCEPT !.frame[t].pc = "returned",
                       !.frame[t].mem = <<>>,
                       !.frame[t].ret =
                           [i \in DOMAIN f.pairs |-> m[1][f.pairs[i]][Component(f.op)]]]}

\* Cleanup deleting without the test: del of a missing key is a KeyError
CleanupUnguarded(w, t, start_pos) ==
    LET w1 == [w EXCEPT !.frame[t] =
                 [IdleFrame EXCEPT !.pc = "returned", !.op = "cleanup",
                                   !.start_pos = start_pos]]
    IN IF start_pos \in DOMAIN w.memo
       THEN [w1 EXCEPT !.memo = DictDel(w.memo, start_pos),
                       !.cl[start_pos] = EmptyDict]
       ELSE [w1 EXCEPT !.frame[t].pc = "raised", !.frame[t].exc = "KeyError"]

\* Cleanup emptying the whole of _memoized_evaluations
CleanupAll(w, t, start_pos) ==
    [w EXCEPT !.frame[t] = [IdleFrame EXCEPT !.pc = "returned", !.op = "cleanup",
                                             !.start_pos = start_pos],
              !.memo = EmptyDict,
              !.cl = [l \in Loci |-> EmptyDict]]

\* cleanup_memoized, called by caller t
Cleanup(w, t, start_pos) ==
    LET w1 == [w EXCEPT !.frame[t] =
                 [IdleFrame EXCEPT !.pc = "returned", !.op = "cleanup",
                                   !.start_pos = start_pos]]
    IN IF start_pos \in DOMAIN w.memo
       THEN [w1 EXCEPT !.memo = DictDel(w.memo, start_pos),
                       !.cl[start_pos] = EmptyDict]
       ELSE w1

\* the step at pc of caller t in w, if no exception has ended the call
StepAt(pcv, w, t) ==
    IF w.frame[t].pc # pcv THEN {w}
    ELSE CASE pcv = "classify" -> Classify(w, t)
           [] pcv = "regress" -> Regress(w, t)
           [] pcv = "memoize" -> Memoize(w, t)
           [] pcv = "read" -> Read(w, t)

\* a whole call of caller t, from its first line to its return or its exception
RunCall(t, op, start_pos, pairs) ==
    \E w1 \in Begin(World, t, op, start_pos, pairs) :
    \E w2 \in StepAt("classify", w1, t) :
    \E w3 \in StepAt("regress", w2, t) :
    \E w4 \in StepAt("memoize", w3, t) :
    \E w5 \in StepAt("read", w4, t) : SetWorld(w5)

-----------------------------------------------------------------------------
(* Specifications *)

\* the state when Predictor(...) has run with arguments drawn from Args: the
\* frame of caller 1 is that of the constructor call, which returned the
\* predictor or raised
InitFrom(Args) ==
    /\ \E a \in Args :
         LET p == PredictorInit(a)
         IN /\ constructed = p.ok
            /\ context_nt = p.context_nt
            /\ classification_threshold = p.classification_threshold
            /\ regression_threshold = p.regression_threshold
            /\ frame = [t \in Threads |->
                          IF t = 1
                          THEN [IdleFrame EXCEPT
                                  !.op = "__init__",
                                  !.pc = IF p.ok THEN "returned" ELSE "raised",
                                  !.exc = IF p.ok THEN "" ELSE "Exception",
                                  !.ctor_args = <<a>>]
                          ELSE IdleFrame]
    /\ memoized_evaluations = EmptyDict
    /\ heap = [id \in DictIds |-> EmptyDict]
    /\ calls = 0
    /\ cls_submitted = [x \in Loci \X PairUniverse |-> 0]
    /\ classified = [l \in Loci |-> EmptyDict]

Init == InitFrom(CtorArgs)

PairLists == SeqsUpTo(PairUniverse, MaxLen)

Idle(t) == frame[t].pc = "idle"

\* determine_highly_active(start_pos, pairs), run by caller 1 from call to return
DetermineHighlyActive ==
    /\ constructed /\ Idle(1) /\ calls < MaxCalls
    /\ \E start_pos \in Loci, pairs \in PairLists :
         RunCall(1, "active", start_pos, pairs)
    /\ calls' = calls + 1
    /\ UNCHANGED config

\* compute_activity(start_pos, pairs), run by caller 1 from call to return
ComputeActivity ==
    /\ constructed /\ Idle(1) /\ calls < MaxCalls
    /\ \E start_pos \in Loci, pairs \in PairLists :
         RunCall(1, "activity", start_pos, pairs)
    /\ calls' = calls + 1
    /\ UNCHANGED config

\* cleanup_memoized(start_pos), run by caller 1
CleanupMemoized ==
    /\ constructed /\ Idle(1)
    /\ \E start_pos \in Loci : SetWorld(Cleanup(World, 1, start_pos))
    /\ UNCHANGED <<calls, config>>

\* the call of caller t is over: the caller has its result or its exception,
\* and the frame is gone
Return(t) ==
    /\ frame[t].pc \in {"returned", "raised"}
    /\ frame' = [frame EXCEPT ![t] = IdleFrame]
    /\ UNCHANGED <<config, memoized_evaluations, heap, calls, cls_submitted,
                   classified>>

Next ==
    \/ DetermineHighlyActive
    \/ ComputeActivity
    \/ CleanupMemoized
    \/ Return(1)

Spec == Init /\ [][Next]_vars

-----------------------------------------------------------------------------
(* Concurrent callers.  The class takes no lock, so the calls of two callers
   interleave; a caller is taken to run without interruption from one model
   invocation to the next, the points at which a call waits: the first lines
   of the operation, encoding and classification, the regression, combining
   and memoizing, and the return statement are one step each. *)

\* most active/activity calls after a construction of WideCtorArgs
MaxCtorCalls == 1
\* longest list of pairs passed to such a call
MaxCtorLen == 1

CtorPairLists == SeqsUpTo({pairA, pairN}, MaxCtorLen)

\* determine_highly_active or compute_activity, run by caller 1 from call to
\* return on the predictor constructed
QueryAfterInit ==
    /\ constructed /\ Idle(1) /\ calls < MaxCtorCalls
    /\ \E op \in {"active", "activity"}, start_pos \in Loci,
          pairs \in CtorPairLists :
         RunCall(1, op, start_pos, pairs)
    /\ calls' = calls + 1
    /\ UNCHANGED config

InitCtor == InitFrom(WideCtorArgs)

NextCtor ==
    \/ QueryAfterInit
    \/ CleanupMemoized
    \/ Return(1)

SpecCtor == InitCtor /\ [][NextCtor]_vars

\* longest list of pairs given to _model_input_from_nt
MaxEncLen == 2

\* the context_nt of the predictors that encode
EncContexts == {0, 1}

EncCtorArgs == {CtorArg(c, c, <<5>>, <<8>>, <<5>>, <<-32>>) : c \in EncContexts}

\* targets of 1 to 3 bases, exact or ambiguous, and guides of 1 or 2 bases;
\* X and Z are not in FASTA_CODES
EncTargets ==
    (UNION {[1..n -> {"A", "N"}] : n \in 1..3}) \cup {<<"X">>, <<"A", "X", "A">>}

EncGuides == {<<"C">>, <<"K">>, <<"C", "K">>, <<"Z">>}

EncPairLists == SeqsUpTo(EncTargets \X EncGuides, MaxEncLen)

\* the characters given to onehot: the codes of the table and others
OnehotChars == DOMAIN FASTA_CODES \cup {"X", "Z", "a", "-"}

\* self._model_input_from_nt(pairs), from call to return
ModelInputCall ==
    /\ constructed /\ Idle(1)
    /\ \E pairs \in EncPairLists :
         LET x == ModelInputFromNt(context_nt, pairs)
         IN frame' = [frame EXCEPT ![1] =
                        [IdleFrame EXCEPT
                           !.op = "_model_input_from_nt",
                           !.pairs = pairs,
                           !.pc = IF x.ok THEN "returned" ELSE "raised",
                           !.exc = x.err,
                           !.pairs_onehot = x.val]]
    /\ UNCHANGED <<config, memoized_evaluations, heap, calls, cls_submitted,
                   classified>>

\* onehot(b), from call to return
OnehotCall ==
    /\ constructed /\ Idle(1)
    /\ \E b \in OnehotChars :
         frame' = [frame EXCEPT ![1] =
                     IF b \in DOMAIN FASTA_CODES
                     THEN [IdleFrame EXCEPT !.op = "onehot", !.b = b,
                                            !.pc = "returned",
                                            !.ret = onehot(b)]
                     ELSE [IdleFrame EXCEPT !.op = "onehot", !.b = b,
                                            !.pc = "raised",
                                            !.exc = "KeyError"]]
    /\ UNCHANGED <<config, memoized_evaluations, heap, calls, cls_submitted,
                   classified>>

InitEnc == InitFrom(EncCtorArgs)

NextEnc ==
    \/ ModelInputCall
    \/ OnehotCall
    \/ Return(1)

SpecEnc == InitEnc /\ [][NextEnc]_vars

\* longest list of pairs a concurrent caller passes
MaxConcLen == 1

ConcPairLists == SeqsUpTo(PairUniverse, MaxConcLen)

\* the first lines of determine_highly_active, by caller t
CallActive(t) ==
    /\ constructed /\ Idle(t) /\ calls < MaxCalls
    /\ \E start_pos \in Loci, pairs \in ConcPairLists :
         \E w \in Begin(World, t, "active", start_pos, pairs) : SetWorld(w)
    /\ calls' = calls + 1
    /\ UNCHANGED config

\* the first lines of compute_activity, by caller t
CallActivity(t) ==
    /\ constructed /\ Idle(t) /\ calls < MaxCalls
    /\ \E start_pos \in Loci, pairs \in ConcPairLists :
         \E w \in Begin(World, t, "activity", start_pos, pairs) : SetWorld(w)
    /\ calls' = calls + 1
    /\ UNCHANGED config

\* caller t takes the next step of its call
DoClassify(t) ==
    /\ frame[t].pc = "classify"
    /\ \E w \in Classify(World, t) : SetWorld(w)
    /\ UNCHANGED <<calls, config>>

DoRegress(t) ==
    /\ frame[t].pc = "regress"
    /\ \E w \in Regress(World, t) : SetWorld(w)
    /\ UNCHANGED <<calls, config>>

DoMemoize(t) ==
    /\ frame[t].pc = "memoize"
    /\ \E w \in Memoize(World, t) : SetWorld(w)
    /\ UNCHANGED <<calls, config>>

DoRead(t) ==
    /\ frame[t].pc = "read"
    /\ \E w \in Read(World, t) : SetWorld(w)
    /\ UNCHANGED <<calls, config>>

\* cleanup_memoized(start_pos), by caller t
DoCleanup(t) ==
    /\ constructed /\ Idle(t)
    /\ \E start_pos \in Loci : SetWorld(Cleanup(World, t, start_pos))
    /\ UNCHANGED <<calls, config>>

NextConc ==
    \E t \in Threads :
        \/ CallActive(t)
        \/ CallActivity(t)
        \/ DoClassify(t)
        \/ DoRegress(t)
        \/ DoMemoize(t)
        \/ DoRead(t)
        \/ DoCleanup(t)
        \/ Return(t)

SpecConc == Init /\ [][NextConc]_vars

-----------------------------------------------------------------------------
(* Vocabulary of the properties *)

\* a call of active or activity
IsQuery(f) == f.op \in {"active", "activity"}

\* the batch evaluation of the call of f produced its results
Evaluated(f) == IsQuery(f) /\ f.pc \in {"read", "returned"}

\* the step is a whole call of caller 1, from its first line to its end
CallStep == frame[1].pc = "idle" /\ frame'[1].pc \in {"returned", "raised"}

\* pair has a result stored under start_pos
IsStored(memo, h, start_pos, pair) ==
    start_pos \in DOMAIN memo /\ pair \in DOMAIN h[memo[start_pos]]

\* the result stored for pair under start_pos
StoredResult(memo, h, start_pos, pair) == h[memo[start_pos]][pair]

\* the model input of each pair under each context_nt a construction sets,
\* <<>> for a pair that does not encode
EncTable ==
    [ctx \in {a.classification_context_nt : a \in CtorArgs} |->
       [pair \in PairUniverse |->
          LET x == ModelInputFromNt(ctx, <<pair>>)
          IN IF x.ok THEN x.val[1] ELSE <<>>]]

\* the model input of one pair
Enc(pair) == EncTable[context_nt][pair]

-----------------------------------------------------------------------------
(* C1: in a batch evaluation every pair whose classification score is below
   classification_threshold gets the result (0, False), and the regression
   model never receives the input of such a pair; when every pair of the
   batch is under the threshold the regression model is not invoked. *)
C1_InactiveNotRegressed ==
    \A t \in Threads :
      LET f == frame[t]
          scored == DOMAIN f.pred_classification_score
      IN /\ \A i \in scored :
              f.pred_classification_score[i] < classification_threshold =>
                /\ f.pairs_onehot[i] \notin Range(f.reg_input)
                /\ Evaluated(f) => f.combined_results[i] = <<0, FALSE>>
                /\ f.pc = "returned" =>
                     /\ IsStored(memoized_evaluations, heap, f.start_pos,
                                 f.unique_pairs_to_evaluate[i])
                     /\ StoredResult(memoized_evaluations, heap, f.start_pos,
                                     f.unique_pairs_to_evaluate[i]) = <<0, FALSE>>
         /\ (\A i \in scored :
               f.pred_classification_score[i] < classification_threshold)
              => ~f.reg_called

\* a batch of two pairs returned, one under the threshold and one not, and
\* the regression model was invoked
C1_Witness ==
    LET f == frame[1]
    IN /\ f.pc = "returned" /\ IsQuery(f)
       /\ Len(f.pred_classification_score) = 2
       /\ f.pred_classification_score[1] < classification_threshold
       /\ f.pred_classification_score[2] >= classification_threshold
       /\ f.reg_called

(* C2: every pair whose classification score is >= classification_threshold
   gets the result (shifted, highly_active), shifted being max(0, raw + 4.0)
   for the raw output the regression model gave for that pair's input and
   highly_active being shifted >= regression_threshold; a raw output of -5.0
   gives activity 0, and score 0.9, thresholds 0.5 and 0.8 and raw output
   -3.0 give (1.0, True). *)
C2_ActiveResult ==
    \A t \in Threads :
      LET f == frame[t]
      IN Evaluated(f) =>
           \A i \in DOMAIN f.pred_classification_score :
             f.pred_classification_score[i] >= classification_threshold =>
               \E k \in DOMAIN f.reg_input :
                 LET raw == f.pred_regression_score[k]
                     shifted == IF raw + 40 > 0 THEN raw + 40 ELSE 0
                     r == f.combined_results[i]
                 IN /\ f.reg_input[k] = f.pairs_onehot[i]
                    /\ r = <<shifted, shifted >= regression_threshold>>
                    /\ raw = -50 => r[1] = 0
                    /\ (f.pred_classification_score[i] = 9
                          /\ classification_threshold = 5 /\ raw = -30
                          /\ regression_threshold = 8) => r = <<10, TRUE>>
                    /\ f.pc = "returned" =>
                         /\ IsStored(memoized_evaluations, heap, f.start_pos,
                                     f.unique_pairs_to_evaluate[i])
                         /\ StoredResult(memoized_evaluations, heap, f.start_pos,
                                         f.unique_pairs_to_evaluate[i]) = r

\* a call returned whose batch held a pair scored 0.9 with raw output -3.0
\* and a pair scored exactly 0.5
C2_Witness ==
    LET f == frame[1]
    IN /\ f.pc = "returned" /\ IsQuery(f)
       /\ classification_threshold = 5 /\ regression_threshold = 8
       /\ \E i, j \in DOMAIN f.pred_classification_score :
             /\ f.pred_classification_score[i] = 9
             /\ f.combined_results[i] = <<10, TRUE>>
             /\ f.pred_classification_score[j] = classification_threshold

(* C3: evaluating the same (start_pos, pair) twice, as duplicates inside one
   call or in a later call at the same start_pos with no cleanup of it in
   between, gives the same result each time and submits the pair to each
   model at most once: a call that returns gives equal values for equal
   pairs and passes no input twice to a model, and a pair that had a stored
   result when the call began goes to neither model, keeps its stored result
   and is returned with the component of that stored result. *)
C3_CacheIdempotent ==
    [][ (CallStep /\ frame'[1].pc = "returned" /\ IsQuery(frame'[1])) =>
          LET f == frame'[1]
          IN /\ \A i, j \in DOMAIN f.pairs :
                  f.pairs[i] = f.pairs[j] => f.ret[i] = f.ret[j]
             /\ \A i \in DOMAIN f.pairs :
                  LET input == Enc(f.pairs[i])
                  IN /\ Count(f.cls_input, input) <= 1
                     /\ Count(f.reg_input, input) <= 1
                     /\ IsStored(memoized_evaluations, heap, f.start_pos, f.pairs[i]) =>
                          LET was == StoredResult(memoized_evaluations, heap,
                                                  f.start_pos, f.pairs[i])
                          IN /\ input \notin Range(f.cls_input)
                             /\ input \notin Range(f.reg_input)
                             /\ StoredResult(memoized_evaluations', heap',
                                             f.start_pos, f.pairs[i]) = was
                             /\ f.ret[i] = was[IF f.op = "active" THEN 2 ELSE 1]
      ]_vars

\* the second call returned for a pair given twice that the first call had
\* evaluated at the same start_pos: no model was invoked
C3_Witness ==
    LET f == frame[1]
    IN /\ f.pc = "returned" /\ IsQuery(f) /\ calls = 2
       /\ Len(f.pairs) = 2 /\ f.pairs[1] = f.pairs[2]
       /\ cls_submitted[<<f.start_pos, f.pairs[1]>>] = 1
       /\ ~f.cls_called /\ ~f.reg_called

(* C4: a call of active or activity that returns evaluates exactly the
   distinct requested pairs that had no stored result under start_pos, each
   once, stores each result under (start_pos, pair), and returns a list as
   long as pairs whose i-th element is the stored highly_active flag (resp.
   activity) of pairs[i]. *)
C4_EvaluateUnseenAndRead ==
    [][ (CallStep /\ frame'[1].pc = "returned" /\ IsQuery(frame'[1])) =>
          LET f == frame'[1]
              u == f.unique_pairs_to_evaluate
          IN /\ Range(u) = {pair \in Range(f.pairs) :
                              ~IsStored(memoized_evaluations, heap, f.start_pos, pair)}
             /\ Cardinality(Range(u)) = Len(u)
             /\ f.cls_input = [i \in DOMAIN u |-> Enc(u[i])]
             /\ f.cls_called = (u # <<>>)
             /\ Len(f.combined_results) = Len(u)
             /\ \A i \in DOMAIN u :
                  /\ IsStored(memoized_evaluations', heap', f.start_pos, u[i])
                  /\ StoredResult(memoized_evaluations', heap', f.start_pos, u[i])
                       = f.combined_results[i]
             /\ Len(f.ret) = Len(f.pairs)
             /\ \A i \in DOMAIN f.pairs :
                  /\ IsStored(memoized_evaluations', heap', f.start_pos, f.pairs[i])
                  /\ f.ret[i] = StoredResult(memoized_evaluations', heap',
                                             f.start_pos, f.pairs[i])
                                  [IF f.op = "active" THEN 2 ELSE 1]
      ]_vars

\* a call returned two values for two pairs of which one had a stored result
\* and the other was evaluated by this call
C4_Witness ==
    LET f == frame[1]
    IN /\ f.pc = "returned" /\ IsQuery(f)
       /\ Len(f.pairs) = 2 /\ f.pairs[1] # f.pairs[2]
       /\ Len(f.unique_pairs_to_evaluate) = 1
       /\ Len(f.ret) = 2

(* C5: when two callers run active or activity at once for the same
   start_pos with overlapping pairs that have no stored result, the models
   are not invoked by both callers for the same pair: no two callers are
   both between their check for unseen pairs and their store, at the same
   start_pos, each having given the classification model the input of the
   same pair. *)
C5_NoConcurrentDoubleEvaluation ==
    \A t1, t2 \in Threads :
      (/\ t1 # t2
       /\ IsQuery(frame[t1]) /\ IsQuery(frame[t2])
       /\ frame[t1].start_pos = frame[t2].start_pos
       /\ frame[t1].pc \in {"regress", "memoize"}
       /\ frame[t2].pc \in {"regress", "memoize"})
      => Range(frame[t1].cls_input) \cap Range(frame[t2].cls_input) = {}

(* C6, as claimed: over any sequence of active, activity and cleanup calls no
   (start_pos, pair) is ever submitted to the classification model a second
   time. *)
C6_NeverSubmittedTwice ==
    \A x \in Loci \X PairUniverse : cls_submitted[x] <= 1

(* C6, amended: a (start_pos, pair) is submitted to the classification model
   at most once by a call, and only while no result is stored for it under
   start_pos; a stored result stays until cleanup_memoized(start_pos), so the
   pair is submitted again only after that cleanup or after a batch
   evaluation that failed before storing. *)
C6_SubmittedOnlyWhenNotStored ==
    [][ \A l \in Loci, pair \in PairUniverse :
          /\ cls_submitted'[<<l, pair>>] # cls_submitted[<<l, pair>>] =>
               /\ cls_submitted'[<<l, pair>>] = cls_submitted[<<l, pair>>] + 1
               /\ ~IsStored(memoized_evaluations, heap, l, pair)
          /\ (IsStored(memoized_evaluations, heap, l, pair)
                /\ ~IsStored(memoized_evaluations', heap', l, pair)) =>
               (frame'[1].op = "cleanup" /\ frame'[1].start_pos = l)
      ]_vars

\* a pair was submitted a second time at its start_pos, by a call that
\* returned and stored its result
C6_Witness ==
    LET f == frame[1]
    IN /\ f.pc = "returned" /\ IsQuery(f) /\ f.cls_called
       /\ \E i \in DOMAIN f.unique_pairs_to_evaluate :
            /\ cls_submitted[<<f.start_pos, f.unique_pairs_to_evaluate[i]>>] = 2
            /\ IsStored(memoized_evaluations, heap, f.start_pos,
                        f.unique_pairs_to_evaluate[i])

(* C7: a call at one start_pos adds no entry and no sub-map under any other
   start_pos, and cleanup_memoized(start_pos) leaves what is stored under
   every other start_pos as it was. *)
C7_LocusIsolation ==
    [][ CallStep =>
          \A l \in Loci \ {frame'[1].start_pos} :
            /\ (l \in DOMAIN memoized_evaluations') = (l \in DOMAIN memoized_evaluations)
            /\ l \in DOMAIN memoized_evaluations =>
                 heap'[memoized_evaluations'[l]] = heap[memoized_evaluations[l]]
      ]_vars

\* cleanup_memoized(1) has run after pairs were submitted at start_pos 1,
\* and start_pos 2 holds results
C7_Witness ==
    LET f == frame[1]
    IN /\ f.op = "cleanup" /\ f.start_pos = 1 /\ f.pc = "returned"
       /\ \E pair \in PairUniverse : cls_submitted[<<1, pair>>] > 0
       /\ \E pair \in PairUniverse : IsStored(memoized_evaluations, heap, 2, pair)

(* C8: cleanup_memoized(start_pos) raises nothing and leaves no entry under
   start_pos; when start_pos had no entries the stored results are all as
   they were, and when start_pos had no sub-map (never referenced, or
   cleaned up before) _memoized_evaluations and its sub-maps are as they
   were. *)
C8_Cleanup ==
    [][ (CallStep /\ frame'[1].op = "cleanup") =>
          LET l == frame'[1].start_pos
          IN /\ frame'[1].pc = "returned" /\ frame'[1].exc = ""
             /\ l \notin DOMAIN memoized_evaluations'
             /\ \A pair \in PairUniverse :
                  ~IsStored(memoized_evaluations', heap', l, pair)
             /\ (\A pair \in PairUniverse :
                   ~IsStored(memoized_evaluations, heap, l, pair)) =>
                  Stored(memoized_evaluations', heap')
                    = Stored(memoized_evaluations, heap)
             /\ l \notin DOMAIN memoized_evaluations =>
                  /\ memoized_evaluations' = memoized_evaluations
                  /\ \A l2 \in DOMAIN memoized_evaluations :
                       heap'[memoized_evaluations[l2]]
                         = heap[memoized_evaluations[l2]]
      ]_vars

\* cleanup_memoized(1) has run though nothing was ever submitted at
\* start_pos 1, and start_pos 2 holds results
C8_Witness ==
    LET f == frame[1]
    IN /\ f.op = "cleanup" /\ f.start_pos = 1 /\ f.pc = "returned"
       /\ \A pair \in PairUniverse : cls_submitted[<<1, pair>>] = 0
       /\ \E pair \in PairUniverse : IsStored(memoized_evaluations, heap, 2, pair)

(* C9: a call whose batch evaluation fails (a character outside FASTA_CODES,
   a length mismatch, a model that raises) returns nothing and stores
   nothing: the stored results are those of before the call. *)
C9_FailureStoresNothing ==
    [][ (CallStep /\ frame'[1].pc = "raised") =>
          /\ frame'[1].ret = <<>>
          /\ frame'[1].exc # ""
          /\ Stored(memoized_evaluations', heap')
               = Stored(memoized_evaluations, heap)
      ]_vars

\* the regression model raised, after the classification had decided a pair
\* of the batch inactive, while the cache holds a result
C9_Witness ==
    LET f == frame[1]
    IN /\ f.pc = "raised" /\ f.exc = "ModelError" /\ f.reg_called
       /\ \E i \in DOMAIN f.pred_classification_score :
            f.pred_classification_score[i] < classification_threshold
       /\ Stored(memoized_evaluations, heap) # {}

(* C10: every stored entry (activity, highly_active) has activity >= 0; if
   highly_active is True the pair was classified active and activity >=
   regression_threshold; if the pair was classified inactive the entry is
   (0, False). *)
C10_StoredEntries ==
    \A e \in Stored(memoized_evaluations, heap) :
      LET l == e[1]
          pair == e[2]
          activity == e[3][1]
          highly_active == e[3][2]
      IN /\ pair \in DOMAIN classified[l]
         /\ activity >= 0
         /\ highly_active =>
              (classified[l][pair] /\ activity >= regression_threshold)
         /\ ~classified[l][pair] => e[3] = <<0, FALSE>>

\* the cache holds a highly active entry, an entry classified active that is
\* not highly active, and an entry classified inactive
C10_Witness ==
    /\ \E e \in Stored(memoized_evaluations, heap) : e[3][2]
    /\ \E e \in Stored(memoized_evaluations, heap) :
         classified[e[1]][e[2]] /\ ~e[3][2]
    /\ \E e \in Stored(memoized_evaluations, heap) : ~classified[e[1]][e[2]]

(* C11, as claimed: for every pair classified active whose shifted
   regression value is below regression_threshold, highly_active is False
   and the activity is the shifted value, which is not zero. *)
C11_BelowThresholdNonzero ==
    \A t \in Threads :
      LET f == frame[t]
      IN Evaluated(f) =>
           \A i \in DOMAIN f.classification_results :
             \A k \in DOMAIN f.reg_input :
               (/\ f.classification_results[i]
                /\ f.reg_input[k] = f.pairs_onehot[i]
                /\ f.regression_results[k] < regression_threshold)
               => /\ f.combined_results[i] = <<f.regression_results[k], FALSE>>
                  /\ f.combined_results[i][1] # 0

(* C11, amended: for every pair classified active whose shifted regression
   value is below regression_threshold, highly_active is False and the
   activity is the shifted value max(0, raw + 4.0): positive when the raw
   output is above -4.0, and 0 when the raw output is -4.0 or less. *)
C11_BelowThresholdShifted ==
    \A t \in Threads :
      LET f == frame[t]
      IN Evaluated(f) =>
           \A i \in DOMAIN f.classification_results :
             \A k \in DOMAIN f.reg_input :
               (/\ f.classification_results[i]
                /\ f.reg_input[k] = f.pairs_onehot[i]
                /\ f.regression_results[k] < regression_threshold)
               => LET raw == f.pred_regression_score[k]
                      r == f.combined_results[i]
                  IN /\ r = <<f.regression_results[k], FALSE>>
                     /\ raw > -40 => (r[1] = raw + 40 /\ r[1] > 0)
                     /\ raw <= -40 => r[1] = 0
                     /\ f.pc = "returned" =>
                          StoredResult(memoized_evaluations, heap, f.start_pos,
                                       f.unique_pairs_to_evaluate[i]) = r

\* a call returned with a pair classified active whose raw output -5.0 gave
\* activity 0, and one whose raw output -3.5 gave activity 0.5, both below
\* the threshold 0.8
C11_Witness ==
    LET f == frame[1]
    IN /\ f.pc = "returned" /\ IsQuery(f) /\ regression_threshold = 8
       /\ \E i, j \in DOMAIN f.classification_results :
            /\ f.classification_results[i] /\ f.classification_results[j]
            /\ f.pred_regression_score = <<-50, -35>>
            /\ f.combined_results[i] = <<0, FALSE>>
            /\ f.combined_results[j] = <<5, FALSE>>

(* C12: a call of active or activity whose pair list is empty, or whose
   pairs all have a stored result under start_pos, returns (the empty list,
   resp. the stored values) and invokes neither model: the encoding, the
   classification, the regression and the combination each work on the empty
   batch and give the empty list. *)
C12_EmptyBatchShortCircuits ==
    (constructed /\ frame[1].pc = "idle") =>
      \A l \in Loci, pairs \in PairLists :
        (\A i \in DOMAIN pairs :
           IsStored(memoized_evaluations, heap, l, pairs[i])) =>
          \A op \in {"active", "activity"} :
            \A w1 \in Begin(World, 1, op, l, pairs) :
            \A w2 \in StepAt("classify", w1, 1) :
            \A w3 \in StepAt("regress", w2, 1) :
            \A w4 \in StepAt("memoize", w3, 1) :
            \A w \in StepAt("read", w4, 1) :
              LET f == w.frame[1]
              IN /\ f.pc = "returned" /\ f.exc = ""
                 /\ ~f.cls_called /\ ~f.reg_called
                 /\ f.cls_input = <<>> /\ f.reg_input = <<>>
                 /\ w.cs = cls_submitted
                 /\ f.pairs_onehot = <<>> /\ f.classification_results = <<>>
                 /\ f.regression_results = <<>> /\ f.combined_results = <<>>
                 /\ f.ret = [i \in DOMAIN pairs |->
                               StoredResult(memoized_evaluations, heap, l,
                                            pairs[i])[Component(op)]]
                 /\ Stored(w.memo, w.heap) = Stored(memoized_evaluations, heap)

\* a call with the empty pair list returned the empty list, at a start_pos
\* that holds results, the models not invoked
C12_Witness ==
    LET f == frame[1]
    IN /\ f.pc = "returned" /\ IsQuery(f)
       /\ f.pairs = <<>> /\ f.ret = <<>>
       /\ ~f.cls_called /\ ~f.reg_called
       /\ \E pair \in PairUniverse :
            IsStored(memoized_evaluations, heap, f.start_pos, pair)

\* the frame of caller 1 is that of the constructor call
IsCtor(f) == f.op = "__init__"

\* what holds of the predictor and of the constructor call in every state
C13_Constructed ==
    /\ constructed =>
         /\ 0 <= classification_threshold /\ classification_threshold <= 10
         /\ regression_threshold >= 0
    /\ ~constructed =>
         /\ calls = 0 /\ memoized_evaluations = EmptyDict
         /\ \A t \in Threads : frame[t].op \in {"", "__init__"}
    /\ IsCtor(frame[1]) =>
         LET a == frame[1].ctor_args[1]
             ct == a.classification_threshold
             rt == a.regression_threshold
             cd == a.classification_default
             rd == a.regression_default
         IN /\ constructed = (frame[1].pc = "returned")
            /\ ~constructed = (frame[1].pc = "raised")
            /\ constructed =>
                 /\ a.classification_context_nt = a.regression_context_nt
                 /\ context_nt = a.classification_context_nt
                 /\ context_nt = a.regression_context_nt
            /\ a.classification_context_nt # a.regression_context_nt
                 => ~constructed
            /\ (Given(ct) /\ (ct[1] < 0 \/ ct[1] > 10)) => ~constructed
            /\ (Given(rt) /\ rt[1] < 0) => ~constructed
            /\ (~Given(ct) /\ Given(cd) /\ (cd[1] < 0 \/ cd[1] > 10))
                 => ~constructed
            /\ (/\ a.classification_context_nt = a.regression_context_nt
                /\ Given(ct) /\ 0 <= ct[1] /\ ct[1] <= 10
                /\ Given(rt) /\ rt[1] >= 0)
                 => /\ constructed
                    /\ classification_threshold = ct[1]
                    /\ regression_threshold = rt[1]

(* C13: every predictor constructed has the context_nt common to its two
   models as its context_nt, a classification_threshold in [0, 1] (0 and 1
   accepted) and a regression_threshold >= 0; the construction fails, and
   there is no predictor to call, when the two context_nt differ or a
   threshold is outside its domain; no call of active, activity or cleanup
   changes context_nt or a threshold. *)
C13_ConstructionValidated ==
    /\ []C13_Constructed
    /\ [][config' = config]_vars

\* a predictor constructed with classification_threshold 1.0 and
\* regression_threshold 0.0, the boundaries, has answered a call at the
\* context_nt of its models, config as constructed
C13_Witness ==
    /\ constructed /\ classification_threshold = 10 /\ regression_threshold = 0
    /\ context_nt = 1
    /\ frame[1].pc = "returned" /\ IsQuery(frame[1]) /\ frame[1].cls_called

(* C14: when the caller gives no regression threshold the predictor's
   regression_threshold is the value of the default file plus 4.0 and the
   construction fails unless that sum is > 0; a regression threshold given
   by the caller is stored as given; either way highly_active is the
   comparison of the shifted output max(0, raw + 4.0) with the stored
   regression_threshold. *)
C14_RegressionThresholdShift ==
    /\ IsCtor(frame[1]) =>
         LET a == frame[1].ctor_args[1]
             ct == a.classification_threshold
             rt == a.regression_threshold
             cd == a.classification_default
             rd == a.regression_default
             rest_ok ==
               /\ a.classification_context_nt = a.regression_context_nt
               /\ IF Given(ct) THEN 0 <= ct[1] /\ ct[1] <= 10
                  ELSE Given(cd) /\ 0 <= cd[1] /\ cd[1] <= 10
         IN /\ (~Given(rt) /\ Given(rd)) =>
                 /\ constructed => regression_threshold = rd[1] + 40
                 /\ rd[1] + 40 <= 0 => ~constructed
                 /\ (rest_ok /\ rd[1] + 40 > 0) => constructed
            /\ (Given(rt) /\ constructed) => regression_threshold = rt[1]
    /\ \A t \in Threads :
         LET f == frame[t]
         IN Evaluated(f) =>
              \A i \in DOMAIN f.classification_results :
                \A k \in DOMAIN f.reg_input :
                  (f.classification_results[i]
                     /\ f.reg_input[k] = f.pairs_onehot[i])
                  => LET raw == f.pred_regression_score[k]
                         shifted == IF raw + 40 > 0 THEN raw + 40 ELSE 0
                     IN f.combined_results[i]
                          = <<shifted, shifted >= regression_threshold>>

\* a predictor whose regression_threshold 0.1 is the default -3.9 plus 4.0
\* has found the raw output -3.5 highly active
C14_Witness ==
    LET f == frame[1]
    IN /\ constructed /\ regression_threshold = 1
       /\ f.pc = "returned" /\ IsQuery(f) /\ f.reg_called
       /\ f.pred_regression_score = <<-35>>
       /\ f.combined_results = << <<5, TRUE>> >>

\* pair has the length the encoder asserts, and characters of the table
WellFormed(pair) ==
    /\ Len(pair[1]) = 2 * context_nt + Len(pair[2])
    /\ \A c \in Range(pair[1]) \cup Range(pair[2]) : c \in DOMAIN FASTA_CODES

(* C15: every pair with len(target_with_context) = 2*context_nt + len(guide)
   is encoded in 2*context_nt + len(guide) rows in the order of the
   positions: the first context_nt and the last context_nt rows hold the
   target base of the position and an all-zero guide half, the len(guide)
   rows between hold target[context_nt + pos] and guide[pos]; a pair of
   another length makes the encoding fail. *)
C15_EncodeLayout ==
    LET f == frame[1]
    IN f.op = "_model_input_from_nt" =>
         /\ (\E i \in DOMAIN f.pairs :
               Len(f.pairs[i][1]) # 2 * context_nt + Len(f.pairs[i][2]))
              => f.pc = "raised"
         /\ (\A i \in DOMAIN f.pairs : WellFormed(f.pairs[i])) =>
              /\ f.pc = "returned"
              /\ Len(f.pairs_onehot) = Len(f.pairs)
              /\ \A i \in DOMAIN f.pairs :
                   LET target == f.pairs[i][1]
                       guide == f.pairs[i][2]
                       rows == f.pairs_onehot[i]
                   IN /\ Len(rows) = 2 * context_nt + Len(guide)
                      /\ \A r \in DOMAIN rows :
                           /\ SubSeq(rows[r], 1, 4) = onehot(target[r])
                           /\ SubSeq(rows[r], 5, 8) =
                                IF r <= context_nt \/ r > context_nt + Len(guide)
                                THEN <<0, 0, 0, 0>>
                                ELSE onehot(guide[r - context_nt])

\* the sum of the four weights of v
Sum4(v) == v[1] + v[2] + v[3] + v[4]

(* C16: for every code b of the table, onehot(b) has the weight
   1/|real_bases| on the channel of each base b stands for (A is channel 0,
   C 1, G 2, T 3) and 0 on the others, so that the weights sum to 1: one 1
   for A, C, G and T, 1/4 four times for N, 1/2 on G and on T for K; a
   character that is not in the table makes onehot fail. *)
C16_OnehotWeights ==
    LET f == frame[1]
        channel == [base \in {"A", "C", "G", "T"} |->
                      CASE base = "A" -> 1 [] base = "C" -> 2
                        [] base = "G" -> 3 [] base = "T" -> 4]
    IN f.op = "onehot" =>
         /\ f.b \notin DOMAIN FASTA_CODES => (f.pc = "raised" /\ f.ret = <<>>)
         /\ f.b \in DOMAIN FASTA_CODES =>
              /\ f.pc = "returned" /\ Len(f.ret) = 4
              /\ \A base \in {"A", "C", "G", "T"} :
                   f.ret[channel[base]] =
                     IF base \in FASTA_CODES[f.b]
                     THEN One \div Cardinality(FASTA_CODES[f.b])
                     ELSE 0
              /\ Cardinality(FASTA_CODES[f.b]) \in {1, 2, 3, 4}
              /\ Sum4(f.ret) = One
              /\ f.b = "A" => f.ret = <<One, 0, 0, 0>>
              /\ f.b = "C" => f.ret = <<0, One, 0, 0>>
              /\ f.b = "G" => f.ret = <<0, 0, One, 0>>
              /\ f.b = "T" => f.ret = <<0, 0, 0, One>>
              /\ f.b = "N" => f.ret = <<3, 3, 3, 3>>
              /\ f.b = "K" => f.ret = <<0, 0, 6, 6>>

\* onehot('K') has returned weight 1/2 on G and on T
C16_Witness ==
    /\ frame[1].op = "onehot" /\ frame[1].b = "K" /\ frame[1].pc = "returned"
    /\ frame[1].ret = <<0, 0, 6, 6>>

(* C17: in every batch evaluation the results are in the order of the
   pairs, the k-th pair classified active, in that order, has the k-th
   regression output, and there are as many regression outputs as pairs
   classified active, so that _combine_model_results never fails. *)
C17_ActiveSubsetInOrder ==
    \A t \in Threads :
      LET f == frame[t]
          active == {i \in DOMAIN f.classification_results :
                       f.classification_results[i]}
          \* the rank of i among the pairs classified active
          K(i) == Cardinality({i2 \in active : i2 <= i})
      IN /\ f.pc = "raised" =>
              (f.exc \in {"IndexError", "AssertionError"} => ~f.cls_called)
         /\ Evaluated(f) =>
              /\ Len(f.classification_results) = Len(f.unique_pairs_to_evaluate)
              /\ Len(f.combined_results) = Len(f.unique_pairs_to_evaluate)
              /\ Len(f.regression_results) = Cardinality(active)
              /\ Len(f.reg_input) = Cardinality(active)
              /\ \A i \in DOMAIN f.combined_results :
                   /\ f.classification_results[i]
                        = (f.pred_classification_score[i]
                             >= classification_threshold)
                   /\ i \notin active => f.combined_results[i] = <<0, FALSE>>
                   /\ i \in active =>
                        /\ f.reg_input[K(i)] = f.pairs_onehot[i]
                        /\ f.combined_results[i][1] = f.regression_results[K(i)]
              /\ f.pc = "returned" =>
                   \A i \in DOMAIN f.combined_results :
                     StoredResult(memoized_evaluations, heap, f.start_pos,
                                  f.unique_pairs_to_evaluate[i])
                       = f.combined_results[i]

\* a call returned whose batch was an inactive pair followed by an active
\* one, and one whose batch was two active pairs with different outputs
C17_Witness ==
    LET f == frame[1]
    IN /\ f.pc = "returned" /\ IsQuery(f) /\ f.reg_called
       /\ f.classification_results = <<FALSE, TRUE>>
       /\ Len(f.regression_results) = 1
       /\ f.combined_results[2][1] = f.regression_results[1]
       /\ f.regression_results[1] > 0

(* C18: determine_highly_active and compute_activity share one cache: when
   a call of either has returned, a call of the other for the same pairs at
   the same start_pos evaluates nothing, and for every pair the activity
   compute_activity returns and the flag determine_highly_active returns are
   the two components of the one stored result, whichever was called
   first. *)
C18_SharedCache ==
    LET f == frame[1]
        other == IF f.op = "active" THEN "activity" ELSE "active"
    IN (IsQuery(f) /\ f.pc = "returned") =>
         \A w1 \in Begin(World, 1, other, f.start_pos, f.pairs) :
         \A w2 \in StepAt("classify", w1, 1) :
         \A w3 \in StepAt("regress", w2, 1) :
         \A w4 \in StepAt("memoize", w3, 1) :
         \A w \in StepAt("read", w4, 1) :
           LET g == w.frame[1]
           IN /\ g.pc = "returned" /\ g.op = other
              /\ ~g.cls_called /\ ~g.reg_called
              /\ w.cs = cls_submitted
              /\ Stored(w.memo, w.heap) = Stored(memoized_evaluations, heap)
              /\ Len(g.ret) = Len(f.pairs)
              /\ \A i \in DOMAIN f.pairs :
                   LET r == StoredResult(w.memo, w.heap, f.start_pos, f.pairs[i])
                   IN IF f.op = "active"
                      THEN f.ret[i] = r[2] /\ g.ret[i] = r[1]
                      ELSE f.ret[i] = r[1] /\ g.ret[i] = r[2]

\* compute_activity has evaluated a pair and returned its activity 1.0; the
\* stored result is (1.0, True)
C18_Witness ==
    LET f == frame[1]
    IN /\ f.pc = "returned" /\ f.op = "activity" /\ f.cls_called /\ f.reg_called
       /\ f.pairs = <<pairA>> /\ f.ret = <<10>>
       /\ StoredResult(memoized_evaluations, heap, f.start_pos, pairA)
            = <<10, TRUE>>

(* C19: a cleanup_memoized(start_pos) run by another caller between the
   steps of a call of active or activity at start_pos does not make the call
   fail on a missing entry: the read that ends the call, the re-read sub-map
   of determine_highly_active and the kept sub-map of compute_activity
   alike, returns one value for every requested pair. *)
C19_ReadSurvivesCleanup ==
    [][ \A t \in Threads :
          (frame[t].pc = "read" /\ frame'[t].pc # "read") =>
            /\ frame'[t].pc = "returned"
            /\ Len(frame'[t].ret) = Len(frame[t].pairs)
      ]_vars

=============================================================================
